---- MODULE Spec2Model ----
(***************************************************************************)
(* EasyMCP: a catalog of tool definitions is turned into a name-keyed      *)
(* dispatch table of HTTP and command handlers whose request parameters    *)
(* are rendered from templates (src/core/engine.rs, src/core/template.rs). *)
(*                                                                         *)
(* Text is modelled at character level: a string is a sequence of          *)
(* one-character strings, so that the escaping regex, the template         *)
(* compiler, JSON serialization and percent-encoding are computed the way  *)
(* the code computes them.                                                 *)
(***************************************************************************)
EXTENDS Naturals, Sequences, FiniteSets, Bags, TLC

VARIABLES
    catalog,    \* DynamicMCPConfig.tools: the ordered tool definitions
    build,      \* position of DynamicMCP::tool_router in its loop
    router,     \* ToolRouter: tool name -> route (schema + handler)
    calls,      \* in-flight and finished tool calls
    tpl,        \* one template slot followed from raw text to rendered text
    heap,       \* per owner of a template set: compilations done, storage leaked
    pipe        \* one command child and the pipes between it and its handler

vars == <<catalog, build, router, calls, tpl, heap, pipe>>

-----------------------------------------------------------------------------
(* Characters and small sequence helpers *)

WsChars == {" ", "\n", "\t"}

WordChars ==
    {"a","b","c","d","e","f","g","h","i","j","k","l","m","n","o","p","q","r",
     "s","t","u","v","w","x","y","z","0","1","2","3","4","5","6","7","8","9","_"}

DigitChars == {"0","1","2","3","4","5","6","7","8","9"}

RECURSIVE Flatten(_)
Flatten(ss) == IF ss = <<>> THEN <<>> ELSE Head(ss) \o Flatten(Tail(ss))

StartsWith(t, i, pre) ==
    /\ i + Len(pre) - 1 <= Len(t)
    /\ \A k \in 1..Len(pre) : t[i + k - 1] = pre[k]

\* first position >= i holding a character of S, Len(t)+1 when there is none
RECURSIVE FindFrom(_, _, _)
FindFrom(t, i, S) ==
    IF i > Len(t) THEN Len(t) + 1
    ELSE IF t[i] \in S THEN i
    ELSE FindFrom(t, i + 1, S)

\* first position >= i NOT holding a character of S
RECURSIVE SkipWhile(_, _, _)
SkipWhile(t, i, S) ==
    IF i <= Len(t) /\ t[i] \in S THEN SkipWhile(t, i + 1, S) ELSE i

\* last position <= i NOT holding a character of S, 0 when there is none
RECURSIVE SkipBack(_, _, _)
SkipBack(t, i, S) ==
    IF i >= 1 /\ t[i] \in S THEN SkipBack(t, i - 1, S) ELSE i

Slice(t, a, b) == IF a > b THEN <<>> ELSE SubSeq(t, a, b)

\* str::trim
Trim(t) == Slice(t, SkipWhile(t, 1, WsChars), SkipBack(t, Len(t), WsChars))

\* str::trim_end_matches(c) and str::trim_start_matches(c): every repetition goes
TrimEndMatches(t, c) == Slice(t, 1, SkipBack(t, Len(t), {c}))
TrimStartMatches(t, c) == Slice(t, SkipWhile(t, 1, {c}), Len(t))

\* str::split('.')
RECURSIVE SplitDot(_)
SplitDot(t) ==
    LET d == FindFrom(t, 1, {"."})
    IN  IF d > Len(t) THEN <<t>>
        ELSE <<Slice(t, 1, d - 1)>> \o SplitDot(Slice(t, d + 1, Len(t)))

-----------------------------------------------------------------------------
(* serde_json values and serde_json::to_string *)

VStr(s) == [t |-> "str", s |-> s]
VNum(n) == [t |-> "num", n |-> n]
VObj(kv) == [t |-> "obj", kv |-> kv]    \* kv: sequence of [k, v] members
VLit(w) == [t |-> "lit", w |-> w]       \* null, true, false

Digit(d) == <<"0","1","2","3","4","5","6","7","8","9">>[d + 1]

RECURSIVE Digits(_)
Digits(n) == IF n < 10 THEN <<Digit(n)>> ELSE Digits(n \div 10) \o <<Digit(n % 10)>>

EscapeChar(c) ==
    CASE c = "\"" -> <<"\\", "\"">>
      [] c = "\\" -> <<"\\", "\\">>
      [] c = "\n" -> <<"\\", "n">>
      [] c = "\t" -> <<"\\", "t">>
      [] OTHER    -> <<c>>

Quoted(s) == <<"\"">> \o Flatten([i \in 1..Len(s) |-> EscapeChar(s[i])]) \o <<"\"">>

RECURSIVE Serialize(_)
Serialize(v) ==
    CASE v.t = "str" -> Quoted(v.s)
      [] v.t = "num" -> Digits(v.n)
      [] v.t = "lit" -> v.w
      [] v.t = "obj" ->
            <<"{">>
            \o Flatten([i \in 1..Len(v.kv) |->
                          (IF i > 1 THEN <<",">> ELSE <<>>)
                          \o Quoted(v.kv[i].k) \o <<":">> \o Serialize(v.kv[i].v)])
            \o <<"}">>

-----------------------------------------------------------------------------
(* serde_json::from_str::<Value>: one JSON value, whitespace around it, and
   nothing else. Arrays, fractions, exponents and \u escapes do not occur in
   the texts of this model and are not parsed. *)

JsonWs == {" ", "\n", "\t"}

JsonLiterals == { <<"n","u","l","l">>, <<"t","r","u","e">>, <<"f","a","l","s","e">> }

ParseFail == [ok |-> FALSE, val |-> VLit(<<>>), next |-> 0]

\* the characters of a string literal whose opening quote is before position i
RECURSIVE ParseStringBody(_, _, _)
ParseStringBody(t, i, acc) ==
    IF i > Len(t) THEN [ok |-> FALSE, s |-> acc, next |-> 0]
    ELSE IF t[i] = "\"" THEN [ok |-> TRUE, s |-> acc, next |-> i + 1]
    ELSE IF t[i] \in {"\n", "\t"} THEN [ok |-> FALSE, s |-> acc, next |-> 0]
    ELSE IF t[i] = "\\"
         THEN IF i + 1 > Len(t) THEN [ok |-> FALSE, s |-> acc, next |-> 0]
              ELSE CASE t[i + 1] = "\"" -> ParseStringBody(t, i + 2, Append(acc, "\""))
                     [] t[i + 1] = "\\" -> ParseStringBody(t, i + 2, Append(acc, "\\"))
                     [] t[i + 1] = "/"  -> ParseStringBody(t, i + 2, Append(acc, "/"))
                     [] t[i + 1] = "n"  -> ParseStringBody(t, i + 2, Append(acc, "\n"))
                     [] t[i + 1] = "t"  -> ParseStringBody(t, i + 2, Append(acc, "\t"))
                     [] OTHER -> [ok |-> FALSE, s |-> acc, next |-> 0]
    ELSE ParseStringBody(t, i + 1, Append(acc, t[i]))

RECURSIVE NumberOf(_, _, _)
NumberOf(t, i, j) ==
    IF i > j THEN 0
    ELSE NumberOf(t, i, j - 1) * 10 + (CHOOSE d \in 0..9 : Digit(d) = t[j])

RECURSIVE ParseValue(_, _)
RECURSIVE ParseMembers(_, _, _)

\* the members of an object after "{" or ",": "key" : value, then "," or "}"
ParseMembers(t, i, acc) ==
    LET k0 == SkipWhile(t, i, JsonWs)
    IN  IF k0 > Len(t) \/ t[k0] # "\"" THEN ParseFail
        ELSE LET key == ParseStringBody(t, k0 + 1, <<>>)
             IN  IF ~key.ok THEN ParseFail
                 ELSE LET c == SkipWhile(t, key.next, JsonWs)
                      IN  IF c > Len(t) \/ t[c] # ":" THEN ParseFail
                          ELSE LET v == ParseValue(t, c + 1)
                               IN  IF ~v.ok THEN ParseFail
                                   ELSE LET e   == SkipWhile(t, v.next, JsonWs)
                                            kv2 == Append(acc, [k |-> key.s, v |-> v.val])
                                        IN  IF e > Len(t) THEN ParseFail
                                            ELSE IF t[e] = "}"
                                                 THEN [ok |-> TRUE, val |-> VObj(kv2), next |-> e + 1]
                                            ELSE IF t[e] = ","
                                                 THEN ParseMembers(t, e + 1, kv2)
                                            ELSE ParseFail

ParseValue(t, i) ==
    LET p == SkipWhile(t, i, JsonWs)
    IN  IF p > Len(t) THEN ParseFail
        ELSE IF t[p] = "\""
             THEN LET r == ParseStringBody(t, p + 1, <<>>)
                  IN  IF r.ok THEN [ok |-> TRUE, val |-> VStr(r.s), next |-> r.next]
                      ELSE ParseFail
        ELSE IF t[p] \in DigitChars
             THEN LET e == SkipWhile(t, p, DigitChars)
                  IN  IF t[p] = "0" /\ e > p + 1 THEN ParseFail
                      ELSE [ok |-> TRUE, val |-> VNum(NumberOf(t, p, e - 1)), next |-> e]
        ELSE IF t[p] = "{"
             THEN LET q == SkipWhile(t, p + 1, JsonWs)
                  IN  IF q <= Len(t) /\ t[q] = "}"
                      THEN [ok |-> TRUE, val |-> VObj(<<>>), next |-> q + 1]
                      ELSE ParseMembers(t, p + 1, <<>>)
        ELSE IF \E w \in JsonLiterals : StartsWith(t, p, w)
             THEN LET w == CHOOSE x \in JsonLiterals : StartsWith(t, p, x)
                  IN  [ok |-> TRUE, val |-> VLit(w), next |-> p + Len(w)]
        ELSE ParseFail

from_str(t) ==
    LET v == ParseValue(t, 1)
    IN  IF v.ok /\ SkipWhile(t, v.next, JsonWs) > Len(t)
        THEN [ok |-> TRUE, val |-> v.val]
        ELSE [ok |-> FALSE, val |-> ParseFail.val]

-----------------------------------------------------------------------------
(* The two formatters of Template *)

DefaultFormatter(value) ==
    TrimStartMatches(TrimEndMatches(Serialize(value), "\""), "\"")

\* urlencoding::encode: unreserved characters stay, every other byte is %XX
PercentEncodeChar(c) ==
    IF c \in WordChars \cup {"-", ".", "~"} THEN <<c>>
    ELSE CASE c = "\"" -> <<"%", "2", "2">>
           [] c = " "  -> <<"%", "2", "0">>
           [] c = "{"  -> <<"%", "7", "B">>
           [] c = "}"  -> <<"%", "7", "D">>
           [] c = "|"  -> <<"%", "7", "C">>
           [] c = "\\" -> <<"%", "5", "C">>
           [] c = ":"  -> <<"%", "3", "A">>
           [] c = ","  -> <<"%", "2", "C">>
           [] c = "/"  -> <<"%", "2", "F">>
           [] c = "\n" -> <<"%", "0", "A">>
           [] c = "\t" -> <<"%", "0", "9">>

PercentEncode(s) == Flatten([i \in 1..Len(s) |-> PercentEncodeChar(s[i])])

UrlEncodeFormatter(value) == PercentEncode(Serialize(value))

-----------------------------------------------------------------------------
(* ESCAPE_BRACKET_REGEX and DynamicMCP::sanitize_template_text *)

InputDot == <<"i", "n", "p", "u", "t", ".">>

\* the slot text {input.f}
PlaceholderF == <<"{", "i", "n", "p", "u", "t", ".", "f", "}">>

\* The first alternative of the regex, \{\s*input\.\w+\s*}, tried at position i
\* (t[i] = "{"): the position of the closing brace of the match, 0 for no match.
\* \s, \w and the literal characters are pairwise disjoint, so the greedy match
\* is the only one.
PlaceholderEnd(t, i) ==
    LET p1 == SkipWhile(t, i + 1, WsChars)
        p2 == p1 + Len(InputDot)
        p3 == SkipWhile(t, p2, WordChars)
        p4 == SkipWhile(t, p3, WsChars)
    IN  IF /\ StartsWith(t, p1, InputDot)
           /\ p3 > p2
           /\ p4 <= Len(t)
           /\ t[p4] = "}"
        THEN p4 ELSE 0

\* replace_all: leftmost non-overlapping matches; group 1 is copied, group 2
\* (a lone "{") becomes "\{"
RECURSIVE SanitizeFrom(_, _)
SanitizeFrom(t, i) ==
    IF i > Len(t) THEN <<>>
    ELSE IF t[i] # "{" THEN <<t[i]>> \o SanitizeFrom(t, i + 1)
    ELSE LET e == PlaceholderEnd(t, i)
         IN  IF e # 0 THEN Slice(t, i, e) \o SanitizeFrom(t, e + 1)
             ELSE <<"\\", "{">> \o SanitizeFrom(t, i + 1)

sanitize_template_text(body_template) == SanitizeFrom(body_template, 1)

-----------------------------------------------------------------------------
(* TinyTemplate behind Template::add_template and Template::render *)

Literal(text) == [op |-> "literal", text |-> text]
Value(path) == [op |-> "value", path |-> path]
FormattedValue(path, name) == [op |-> "formatted", path |-> path, name |-> name]

\* The tag "{ ... }" that starts at position i: the closing brace must be on the
\* line the tag starts on.
ValueTagEnd(t, i) ==
    LET eol == FindFrom(t, i, {"\n"})
        c   == FindFrom(t, i, {"}"})
    IN  IF c < eol THEN c ELSE 0

ValueInstruction(inner) ==
    LET tag == Trim(inner)
        bar == FindFrom(tag, 1, {"|"})
    IN  IF bar <= Len(tag)
        THEN FormattedValue(SplitDot(Trim(Slice(tag, 1, bar - 1))),
                            Trim(Slice(tag, bar + 1, Len(tag))))
        ELSE Value(SplitDot(tag))

\* The compiler's loop. status: "ok"; "error" (add_template returns Err);
\* "panic" (the compiler itself panics: after a text run that ends in a
\* backslash it skips one character of the remaining text, and none remains).
\* Comments ({#) and block tags ({{) are outside what this program can feed the
\* compiler and are left as "error".
RECURSIVE CompileFrom(_, _, _, _)
CompileFrom(t, i, escaped, ins) ==
    IF escaped
    THEN IF i > Len(t) THEN [status |-> "panic", ins |-> ins]
         ELSE LET pos  == FindFrom(t, i + 1, {"{"})
                  text == Slice(t, i, pos - 1)
                  esc  == text[Len(text)] = "\\"
                  lit  == IF esc THEN Slice(text, 1, Len(text) - 1) ELSE text
              IN  CompileFrom(t, pos, esc, Append(ins, Literal(lit)))
    ELSE IF i > Len(t) THEN [status |-> "ok", ins |-> ins]
    ELSE IF StartsWith(t, i, <<"{", "#">>) \/ StartsWith(t, i, <<"{", "{">>)
         THEN [status |-> "error", ins |-> ins]
    ELSE IF t[i] = "{"
         THEN LET e == ValueTagEnd(t, i)
              IN  IF e = 0 THEN [status |-> "error", ins |-> ins]
                  ELSE CompileFrom(t, e + 1, FALSE,
                                   Append(ins, ValueInstruction(Slice(t, i + 1, e - 1))))
    ELSE LET pos  == FindFrom(t, i, {"{"})
             text == Slice(t, i, pos - 1)
             esc  == text[Len(text)] = "\\"
             lit  == IF esc THEN Slice(text, 1, Len(text) - 1) ELSE text
         IN  CompileFrom(t, pos, esc, Append(ins, Literal(lit)))

Compile(text) == CompileFrom(text, 1, FALSE, <<>>)

\* The call context is {"input": object}; a path is looked up step by step.
RECURSIVE LookupIn(_, _, _)
LookupIn(value, path, k) ==
    IF k > Len(path) THEN [found |-> TRUE, value |-> value]
    ELSE IF value.t # "obj" THEN [found |-> FALSE]
    ELSE LET hits == {m \in 1..Len(value.kv) : value.kv[m].k = path[k]}
         IN  IF hits = {} THEN [found |-> FALSE]
             ELSE LookupIn(value.kv[CHOOSE m \in hits : TRUE].v, path, k + 1)

Lookup(context, path) == LookupIn(context, path, 1)

\* formatters registered by Template::new
Formatters == {<<"u","r","l","_","e","n","c","o","d","e">>}

RenderInstruction(in, context) ==
    CASE in.op = "literal" -> [ok |-> TRUE, text |-> in.text]
      [] in.op = "value" ->
            LET r == Lookup(context, in.path)
            IN  IF r.found THEN [ok |-> TRUE, text |-> DefaultFormatter(r.value)]
                ELSE [ok |-> FALSE, text |-> <<>>]
      [] in.op = "formatted" ->
            LET r == Lookup(context, in.path)
            IN  IF r.found /\ in.name \in Formatters
                THEN [ok |-> TRUE, text |-> UrlEncodeFormatter(r.value)]
                ELSE [ok |-> FALSE, text |-> <<>>]

RECURSIVE RenderFrom(_, _, _)
RenderFrom(ins, k, context) ==
    IF k > Len(ins) THEN [ok |-> TRUE, text |-> <<>>]
    ELSE LET a == RenderInstruction(ins[k], context)
             b == RenderFrom(ins, k + 1, context)
         IN  IF a.ok /\ b.ok THEN [ok |-> TRUE, text |-> a.text \o b.text]
             ELSE [ok |-> FALSE, text |-> <<>>]

\* json!({ INPUT_NAME: object })
Context(object) == VObj(<<[k |-> <<"i","n","p","u","t">>, v |-> object]>>)

-----------------------------------------------------------------------------
(* struct Template: the slot texts it keeps for cloning, and the compiled set *)

NoSlots == [n \in {} |-> <<>>]
NoRoutes == [n \in {} |-> 0]

\* Template::new
NewTemplate == [templates |-> NoSlots, template |-> NoSlots]

\* Template::add_template: the text is stored, then compiled. status is that
\* of the compiler: "ok", "error" (Err returned) or "panic".
add_template(self, name, template_str) ==
    LET c == Compile(template_str)
    IN  [status |-> c.status,
         self   |-> [templates |-> (name :> template_str) @@ self.templates,
                     template  |-> IF c.status = "ok"
                                   THEN (name :> c.ins) @@ self.template
                                   ELSE self.template]]

\* <Template as Clone>::clone: every stored text is registered again in a new
\* Template; a text that does not compile panics in expect()
RECURSIVE CloneFrom(_, _, _)
CloneFrom(self, names, acc) ==
    IF names = {} THEN [status |-> "ok", self |-> acc]
    ELSE LET n == CHOOSE x \in names : TRUE
             r == add_template(acc, n, self.templates[n])
         IN  IF r.status # "ok" THEN [status |-> "panic", self |-> r.self]
             ELSE CloneFrom(self, names \ {n}, r.self)

clone(self) == CloneFrom(self, DOMAIN self.templates, NewTemplate)

\* What building one Template costs: add_template runs the compiler once per
\* stored text, and Box::leak gives up the copies of its name and its text
RECURSIVE LeakedFrom(_, _)
LeakedFrom(self, names) ==
    IF names = {} THEN 0
    ELSE LET n == CHOOSE x \in names : TRUE
         IN  Len(n) + Len(self.templates[n]) + LeakedFrom(self, names \ {n})

Allocated(self) ==
    [compilations |-> Cardinality(DOMAIN self.templates),
     leaked       |-> LeakedFrom(self, DOMAIN self.templates)]

NoHeap == [owner \in {} |-> [compilations |-> 0, leaked |-> 0]]

\* no child process: nothing to write, both pipes empty
PipeIdle ==
    [pc |-> "unused", stdin_data |-> 0, stdin |-> 0, stdin_closed |-> FALSE,
     child |-> "none", echo |-> 0, owed |-> 0, stdout |-> 0, output |-> 0]

\* the heap after owner has built the Template self
Charge(h, owner, self) ==
    IF owner \in DOMAIN h
    THEN [h EXCEPT ![owner] =
            [compilations |-> @.compilations + Cardinality(DOMAIN self.templates),
             leaked       |-> @.leaked + LeakedFrom(self, DOMAIN self.templates)]]
    ELSE (owner :> Allocated(self)) @@ h

\* Template::render
render(self, name, input) ==
    IF name \notin DOMAIN self.template THEN [ok |-> FALSE, text |-> <<>>]
    ELSE RenderFrom(self.template[name], 1, input)

-----------------------------------------------------------------------------
(* One slot, from the raw text of a tool definition to its rendered text *)

MaxPieces == 4

Pieces ==
    { <<"{">>, <<"}">>,
      <<"i","n","p","u","t",".","f">>,
      <<" ","|"," ","u","r","l","_","e","n","c","o","d","e">>,
      <<"\"","a","\"",":"," ","1">>,
      <<"\\">>,
      <<" ">>,
      <<"\n">> }

SlotTexts == { Flatten(ps) : ps \in UNION { [1..n -> Pieces] : n \in 0..MaxPieces } }

FieldF == <<"f">>

InputValues ==
    { VStr(<<"x">>), VStr(<<"a","\"">>), VStr(<<"\"","a">>), VStr(<<"a"," ","b">>),
      VNum(42), VObj(<<[k |-> <<"k">>, v |-> VNum(1)]>>) }

\* the call inputs: {"f": v}, and {} (the field is absent)
Inputs == { VObj(<<[k |-> FieldF, v |-> v]>>) : v \in InputValues } \cup { VObj(<<>>) }

NoValue == [t |-> "none"]
NoRender == [ok |-> FALSE, text |-> <<>>]

TplIdle == [pc |-> "unused", raw |-> <<>>, template |-> NewTemplate,
            cloned |-> FALSE, input |-> NoValue, out |-> NoRender]

SlotName == <<"url">>
SlotOwner == "slot"

\* startup: sanitize_template_text, then add_template (engine.rs 101-107)
TplAdd ==
    /\ tpl.pc = "raw"
    /\ \E r \in {add_template(NewTemplate, SlotName, sanitize_template_text(tpl.raw))} :
           /\ tpl' = [tpl EXCEPT !.pc = IF r.status = "ok" THEN "added" ELSE r.status,
                                  !.template = r.self]
           /\ heap' = Charge(heap, SlotOwner, r.self)
    /\ UNCHANGED <<catalog, build, router, calls, pipe>>

\* the per-call template.clone() (engine.rs 150, 326)
TplClone ==
    /\ tpl.pc = "added"
    /\ \E r \in {clone(tpl.template)} :
           /\ tpl' = [tpl EXCEPT !.pc = IF r.status = "ok" THEN "cloned" ELSE r.status,
                                  !.template = r.self, !.cloned = TRUE]
           /\ heap' = Charge(heap, SlotOwner, r.self)
    /\ UNCHANGED <<catalog, build, router, calls, pipe>>

\* template.render(name, &context) on the startup set
TplRender ==
    /\ tpl.pc = "added"
    /\ \E object \in Inputs :
          tpl' = [tpl EXCEPT !.pc = "rendered", !.input = object,
                             !.out = render(tpl.template, SlotName, Context(object))]
    /\ UNCHANGED <<catalog, build, router, calls, heap, pipe>>

\* template.render(name, &context) on the per-call clone
TplRenderClone ==
    /\ tpl.pc = "cloned"
    /\ \E object \in Inputs :
          tpl' = [tpl EXCEPT !.pc = "rendered", !.input = object,
                             !.out = render(tpl.template, SlotName, Context(object))]
    /\ UNCHANGED <<catalog, build, router, calls, heap, pipe>>

InitTemplate ==
    /\ catalog = <<>>
    /\ build = [pc |-> "unused", i |-> 0, registered |-> {}]
    /\ router = NoRoutes
    /\ calls = EmptyBag
    /\ \E raw \in SlotTexts : tpl = [TplIdle EXCEPT !.pc = "raw", !.raw = raw]
    /\ heap = NoHeap
    /\ pipe = PipeIdle

NextTemplate == TplAdd \/ TplClone \/ TplRender \/ TplRenderClone

SpecTemplate == InitTemplate /\ [][NextTemplate]_vars

-----------------------------------------------------------------------------
(* Tool definitions (src/core/config.rs) and the handlers built from them *)

None == [some |-> FALSE]
Some(x) == [some |-> TRUE, v |-> x]

URL_TEMPLATE_NAME == <<"url">>
BODY_TEMPLATE_NAME == <<"body">>
COMMAND_TEMPLATE_NAME == <<"command">>
STDIN_TEMPLATE_NAME == <<"stdin">>

http_header_template_name(name) == <<"header_">> \o name
command_args_template_name(idx) == <<"args_">> \o Digits(idx)

\* add_template(name, sanitize_template_text(text)).expect(..) for each slot in
\* turn: a slot that does not compile panics
RECURSIVE RegisterFrom(_, _, _)
RegisterFrom(self, slots, k) ==
    IF k > Len(slots) THEN [status |-> "ok", self |-> self]
    ELSE LET r == add_template(self, slots[k].name, sanitize_template_text(slots[k].text))
         IN  IF r.status # "ok" THEN [status |-> "panic", self |-> r.self]
             ELSE RegisterFrom(r.self, slots, k + 1)

\* The part of general_http_method_template that runs at startup. headers is
\* the HashMap of header name -> template text, kept as a sequence of pairs.
general_http_method_template(method, url, body_template, header_template) ==
    LET headers == IF header_template.some THEN header_template.v ELSE <<>>
        slots ==
            <<[name |-> URL_TEMPLATE_NAME, text |-> url]>>
            \o (IF body_template.some
                THEN <<[name |-> BODY_TEMPLATE_NAME, text |-> body_template.v]>>
                ELSE <<>>)
            \o [i \in 1..Len(headers) |->
                  [name |-> http_header_template_name(headers[i].name),
                   text |-> headers[i].text]]
        r == RegisterFrom(NewTemplate, slots, 1)
    IN  [status  |-> r.status,
         closure |-> [kind |-> "http",
                      method |-> method,
                      template |-> r.self,
                      body_exist |-> body_template.some,
                      header_template_names |-> {headers[i].name : i \in 1..Len(headers)},
                      stdin_template_exist |-> FALSE,
                      args_template |-> <<>>]]

\* The part of general_command_template that runs at startup.
general_command_template(command_template, args_template, stdin_template) ==
    LET args == IF args_template.some THEN args_template.v ELSE <<>>
        slots ==
            <<[name |-> COMMAND_TEMPLATE_NAME, text |-> command_template]>>
            \o (IF stdin_template.some
                THEN <<[name |-> STDIN_TEMPLATE_NAME, text |-> stdin_template.v]>>
                ELSE <<>>)
            \o [i \in 1..Len(args) |->
                  [name |-> command_args_template_name(i - 1), text |-> args[i]]]
        r == RegisterFrom(NewTemplate, slots, 1)
    IN  [status  |-> r.status,
         closure |-> [kind |-> "command",
                      method |-> "",
                      template |-> r.self,
                      body_exist |-> FALSE,
                      header_template_names |-> {},
                      stdin_template_exist |-> stdin_template.some,
                      args_template |-> args]]

\* generate_tool_description: the schema record of a route
generate_tool_description(name, input_schema) ==
    [name |-> name, input_schema |-> input_schema]

-----------------------------------------------------------------------------
(* DynamicMCP::tool_router *)

\* the route of one entry: its description, and the handler c.closure
Route(name, input_schema, c) ==
    [status |-> c.status,
     route  |-> [attr |-> generate_tool_description(name, input_schema),
                 call |-> c.closure]]

\* One iteration of the loop, for one entry: "skip" (continue), "panic" (an
\* expect() inside the template builders), or "ok" with the route to register.
ToolRoute(entry) ==
    IF entry.tool_type = "HTTP"
    THEN IF ~entry.http_metadata.some THEN [status |-> "skip"]
         ELSE LET m == entry.http_metadata.v
              IN  Route(entry.name, m.input_schema,
                        general_http_method_template(m.method, m.url, m.body, m.headers))
    ELSE IF ~entry.command_metadata.some THEN [status |-> "skip"]
         ELSE LET m == entry.command_metadata.v
              IN  Route(entry.name, m.input_schema,
                        general_command_template(m.command, m.args, m.stdin))

\* a router that replaces the schema of a name and keeps its first handler
WithRouteKeepHandler(r, route) ==
    IF route.attr.name \in DOMAIN r
    THEN (route.attr.name :> [attr |-> route.attr, call |-> r[route.attr.name].call]) @@ r
    ELSE (route.attr.name :> route) @@ r

\* ToolRouter::with_route: the route map is keyed by the tool's name
with_route(r, route) == (route.attr.name :> route) @@ r

\* build.i: entries the loop is past; build.registered: the entries (by
\* position in the catalog) for which with_route was called
RouterEntry ==
    /\ build.pc = "building"
    /\ build.i < Len(catalog)
    /\ \E made \in {ToolRoute(catalog[build.i + 1])} :
           /\ build' = CASE made.status = "panic" -> [build EXCEPT !.pc = "aborted"]
                         [] made.status = "skip"  -> [build EXCEPT !.i = build.i + 1]
                         [] made.status = "ok"    ->
                               [build EXCEPT !.i = build.i + 1,
                                             !.registered = @ \cup {build.i + 1}]
           /\ router' = IF made.status = "ok" THEN with_route(router, made.route)
                        ELSE router
           /\ heap' = IF made.status = "skip" THEN heap
                      ELSE Charge(heap, made.route.attr.name, made.route.call.template)
    /\ UNCHANGED <<catalog, calls, tpl, pipe>>

\* the loop is over: tool_router returns and DynamicMCP::new hands the service
\* to the transport
RouterReturn ==
    /\ build.pc = "building"
    /\ build.i = Len(catalog)
    /\ build' = [build EXCEPT !.pc = "done"]
    /\ UNCHANGED <<catalog, router, calls, tpl, heap, pipe>>

-----------------------------------------------------------------------------
(* Startup alone, over every small catalog (SpecRouter) *)

MaxTools == 3

\* the slot text "{input.f<newline>}": the regex takes it for a placeholder,
\* the compiler wants the closing brace on the line of the opening one
PlaceholderFTwoLines == <<"{", "i", "n", "p", "u", "t", ".", "f", "\n", "}">>

HttpGood ==
    [url |-> <<"h", "/">> \o PlaceholderF, method |-> "GET", body |-> None,
     headers |-> None, input_schema |-> "http_schema"]

HttpNoCompile == [HttpGood EXCEPT !.url = <<"h", "/">> \o PlaceholderFTwoLines]

CommandGood ==
    [command |-> <<"e", "c", "h", "o">>, args |-> Some(<<PlaceholderF>>),
     stdin |-> None, input_schema |-> "command_schema"]

ToolNames == {"a", "b"}

\* Every combination of kind and present specs; the spec that does not compile
\* is given only where it is the one the kind asks for and stands alone.
ToolEntries ==
    { e \in [name : ToolNames,
             tool_type : {"HTTP", "COMMAND"},
             http_metadata : {None, Some(HttpGood), Some(HttpNoCompile)},
             command_metadata : {None, Some(CommandGood)}] :
        e.http_metadata = Some(HttpNoCompile)
            => (e.tool_type = "HTTP" /\ ~e.command_metadata.some) }

RouterCatalogs == UNION { [1..n -> ToolEntries] : n \in 0..MaxTools }

NoCalls == EmptyBag

InitRouter ==
    /\ catalog \in RouterCatalogs
    /\ build = [pc |-> "building", i |-> 0, registered |-> {}]
    /\ router = NoRoutes
    /\ calls = NoCalls
    /\ tpl = TplIdle
    /\ heap = NoHeap
    /\ pipe = PipeIdle

NextRouter == RouterEntry \/ RouterReturn

SpecRouter == InitRouter /\ [][NextRouter]_vars

-----------------------------------------------------------------------------
(* Results of a tool call (rmcp: CallToolResult, Content, ErrorData) *)

NoResult == [kind |-> "none"]

\* the handler's future panicked: the caller gets neither result nor error
Panic == [kind |-> "panic"]

\* ErrorData::new(code, message, None); the message is kept as the parts that
\* format!() puts into it
ErrorData(code, message) == [kind |-> "err", code |-> code, message |-> message]

\* Content::json(value) and Content::text(text)
Content_json(value) == [type |-> "json", text |-> Serialize(value)]
Content_text(text) == [type |-> "text", text |-> text]

\* CallToolResult::success(vec![..])
success(content) == [kind |-> "ok", content |-> content]

-----------------------------------------------------------------------------
(* The HTTP handler: the closure returned by general_http_method_template *)

\* U+007F as one character: serde_json writes it unescaped, HeaderValue
\* refuses it
DEL == "DEL"

\* HeaderName::from_str: a non-empty run of token characters
HeaderNameChars == WordChars \cup {"-", ".", "!", "#", "+", "~"}

HeaderNameFromStr(name) ==
    /\ Len(name) > 0
    /\ \A i \in 1..Len(name) : name[i] \in HeaderNameChars

\* HeaderValue::from_str: no control character other than tab
HeaderValueFromStr(value) ==
    \A i \in 1..Len(value) : value[i] \notin {"\n", "\r", DEL}

\* the orders in which a HashMap may hand out its keys
Orders(S) ==
    { o \in [1..Cardinality(S) -> S] : \A i, j \in 1..Cardinality(S) : o[i] = o[j] => i = j }

\* The header loop (engine.rs 160-169) over the names in iteration order:
\* "err" (render failed, returned as PARSE_ERROR), "panic" (an unwrap() on a
\* name or a value that is not valid), or "ok" with the header map.
RECURSIVE RenderHeaders(_, _, _, _, _)
RenderHeaders(template, order, k, context, headers) ==
    IF k > Len(order) THEN [status |-> "ok", headers |-> headers]
    ELSE LET name == order[k]
             rendered_value == render(template, http_header_template_name(name), context)
         IN  IF ~rendered_value.ok THEN [status |-> "err", name |-> name]
             ELSE IF ~HeaderNameFromStr(name) THEN [status |-> "panic"]
             ELSE IF ~HeaderValueFromStr(rendered_value.text) THEN [status |-> "panic"]
             ELSE RenderHeaders(template, order, k + 1, context,
                                (name :> rendered_value.text) @@ headers)

\* str::contains
Contains(t, pat) == \E i \in 1..(Len(t) + 1) : StartsWith(t, i, pat)

ApplicationJson ==
    <<"a","p","p","l","i","c","a","t","i","o","n","/","j","s","o","n">>

\* a handler that looks at the status before it parses the body
HttpOutcomeStatusFirst(url, response, res_text) ==
    LET content_length ==
            IF response.content_length.some THEN response.content_length.v ELSE 0
        res_val ==
            IF Contains(response.content_type, ApplicationJson)
            THEN from_str(res_text.text)
            ELSE [ok |-> TRUE, val |-> VStr(res_text.text)]
    IN  IF ~res_text.ok /\ content_length > 0
        THEN ErrorData("INTERNAL_ERROR", [what |-> "reading content", url |-> url])
        ELSE IF ~res_text.ok THEN Panic
        ELSE IF response.status \notin 200..299
        THEN ErrorData("INTERNAL_ERROR",
                       [what |-> "got status code", url |-> url,
                        status |-> response.status,
                        body |-> IF res_val.ok THEN Serialize(res_val.val)
                                 ELSE res_text.text])
        ELSE IF ~res_val.ok
        THEN ErrorData("INTERNAL_ERROR", [what |-> "parsing json content", url |-> url])
        ELSE success(<<Content_json(res_val.val)>>)

\* What the handler returns once res.text() has resolved to res_text
\* (engine.rs 222-267): response holds what was taken from the response
\* before the body was awaited.
HttpOutcome(url, response, res_text) ==
    LET content_length ==
            IF response.content_length.some THEN response.content_length.v ELSE 0
        res_val ==
            IF Contains(response.content_type, ApplicationJson)
            THEN from_str(res_text.text)
            ELSE [ok |-> TRUE, val |-> VStr(res_text.text)]
    IN  IF ~res_text.ok /\ content_length > 0
        THEN ErrorData("INTERNAL_ERROR", [what |-> "reading content", url |-> url])
        ELSE IF ~res_text.ok THEN Panic
        ELSE IF ~res_val.ok
        THEN ErrorData("INTERNAL_ERROR", [what |-> "parsing json content", url |-> url])
        ELSE IF response.status \notin 200..299
        THEN ErrorData("INTERNAL_ERROR",
                       [what |-> "got status code", url |-> url,
                        status |-> response.status,
                        body |-> Serialize(res_val.val)])
        ELSE success(<<Content_json(res_val.val)>>)

-----------------------------------------------------------------------------
(* The command handler: the closure returned by general_command_template *)

\* the args slots in index order (engine.rs 340-344)
RECURSIVE RenderArgs(_, _, _, _)
RenderArgs(template, n, i, context) ==
    IF i >= n THEN [ok |-> TRUE, args |-> <<>>]
    ELSE LET a == render(template, command_args_template_name(i), context)
             rest == RenderArgs(template, n, i + 1, context)
         IN  IF a.ok /\ rest.ok THEN [ok |-> TRUE, args |-> <<a.text>> \o rest.args]
             ELSE [ok |-> FALSE, args |-> <<>>]

\* a handler that does not look at the exit status
CommandOutcomeIgnoringExit(output) ==
    LET json_output == from_str(output.stdout)
    IN  IF json_output.ok THEN success(<<Content_json(json_output.val)>>)
        ELSE success(<<Content_text(output.stdout)>>)

\* What the handler returns once wait_with_output() has resolved to output
\* (engine.rs 391-414); stdout and stderr are the lossily decoded strings.
CommandOutcome(output) ==
    LET json_output == from_str(output.stdout)
    IN  IF output.status # 0
        THEN ErrorData("INTERNAL_ERROR",
                       [what |-> "executing a command", stderr |-> output.stderr])
        ELSE IF json_output.ok THEN success(<<Content_json(json_output.val)>>)
        ELSE success(<<Content_text(output.stdout)>>)

-----------------------------------------------------------------------------
(* Calls in flight. A call is a record; calls is the bag of them. *)

MaxCalls == 2

NoRequest == [kind |-> "none"]
NoResponse == [status |-> 0, content_type |-> <<>>, content_length |-> None]
NoText == [ok |-> FALSE, text |-> <<>>, read |-> FALSE]
NoChild == [spawned |-> FALSE, stdin |-> "none"]
NoOutput == [status |-> 0, stdout |-> <<>>, stderr |-> <<>>, waited |-> FALSE]

\* the failure of an HTTP call on the status of its response
IsStatusError(result) ==
    /\ result.kind = "err"
    /\ result.message.what = "got status code"

\* after_status_error: whether, when the call came in, an earlier call had
\* already failed on the status of its response
NewCall(tool, object) ==
    [tool     |-> tool,
     input    |-> object,
     after_status_error |-> \E c \in BagToSet(calls) : IsStatusError(c.result),
     pc       |-> "received",
     template |-> NewTemplate,
     request  |-> NoRequest,
     response |-> NoResponse,
     res_text |-> NoText,
     child    |-> NoChild,
     output   |-> NoOutput,
     result   |-> NoResult]

\* the future resolves: its captured template set is dropped with it
Finish(c, result) ==
    [c EXCEPT !.pc = "done", !.template = NewTemplate, !.result = result]

\* a step that has no effect while another call waits for its child
ReplaceUnlessWaiting(old, new) ==
    IF \E c \in BagToSet(calls) : c # old /\ c.pc = "waiting"
    THEN calls
    ELSE (calls (-) SetToBag({old})) (+) SetToBag({new})

\* one call's future moves on; the futures of the other calls are not touched
Replace(old, new) == (calls (-) SetToBag({old})) (+) SetToBag({new})

\* what the peers of this model send and answer
FieldX == VObj(<<[k |-> FieldF, v |-> VStr(<<"x">>)]>>)
FieldDel == VObj(<<[k |-> FieldF, v |-> VStr(<<DEL>>)]>>)
CallInputs == { FieldX, FieldDel, VObj(<<>>) }

TextPlain == <<"t","e","x","t","/","p","l","a","i","n">>
ContentTypes ==
    { TextPlain,
      ApplicationJson \o <<";"," ","c","h","a","r","s","e","t","=","u","t","f","-","8">> }

Statuses == {200, 299, 300, 404}

BodyJson == <<"{", "\"", "e", "\"", ":", "1", "}">>
Bodies == { <<>>, BodyJson }

ContentLengths == {None} \cup { Some(Len(b)) : b \in Bodies }

Responses ==
    [status : Statuses, content_type : ContentTypes, content_length : ContentLengths]

\* The outcomes of res.text(): the whole body, of the declared length when one
\* was declared, or an error before the body is complete (a body declared
\* empty has nothing left to fail on).
BodyReads(response) ==
    { [ok |-> TRUE, text |-> b, read |-> TRUE] :
        b \in { x \in Bodies : response.content_length.some
                                  => response.content_length.v = Len(x) } }
    \cup (IF response.content_length.some /\ response.content_length.v = 0
          THEN {}
          ELSE { [ok |-> FALSE, text |-> <<>>, read |-> TRUE] })

ExitCodes == {0, 1}
Stdouts ==
    { <<"h", "i", "\n">>,
      <<"{", "\"", "x", "\"", ":", "1", "}", "\n">>,
      <<"1", " ", "x">> }
Stderrs == { <<"n", "o">> }

Outputs == [status : ExitCodes, stdout : Stdouts, stderr : Stderrs, waited : {TRUE}]

\* DynamicMCPClosure::call: the parameters are extracted from the request; an
\* extraction error is the call's result, otherwise the closure is invoked,
\* which clones the tool's template set and returns the future.
CallReceive ==
    /\ build.pc = "done"
    /\ BagCardinality(calls) < MaxCalls
    /\ \E name \in DOMAIN router :
          \/ /\ calls' = calls (+) SetToBag({
                 Finish(NewCall(name, NoValue),
                        ErrorData("INVALID_PARAMS", [what |-> "extracting parameters"])) })
             /\ heap' = heap
          \/ \E object \in CallInputs :
                \E t \in {clone(router[name].call.template)} :
                    /\ calls' = calls (+) SetToBag({
                        IF t.status = "ok"
                        THEN [NewCall(name, object) EXCEPT !.template = t.self]
                        ELSE Finish(NewCall(name, object), Panic) })
                    /\ heap' = Charge(heap, name, t.self)
    /\ UNCHANGED <<catalog, build, router, tpl, pipe>>

\* one call's future moves on to new, and nothing else changes
Moves(c, new) ==
    /\ calls' = Replace(c, new)
    /\ UNCHANGED <<catalog, build, router, tpl, heap, pipe>>

\* the call after the renderings of the HTTP future: the first failure is the
\* call's result, otherwise the request is ready to send
HttpRenderedAs(c, h, headers, rendered_url, rendered_body) ==
    CASE headers.status = "err" ->
           Finish(c, ErrorData("PARSE_ERROR",
               [what |-> "rendering header template",
                name |-> headers.name]))
      [] headers.status = "panic" -> Finish(c, Panic)
      [] headers.status = "ok" /\ ~rendered_url.ok ->
           Finish(c, ErrorData("PARSE_ERROR",
               [what |-> "rendering url template"]))
      [] headers.status = "ok" /\ rendered_url.ok /\ ~rendered_body.ok ->
           Finish(c, ErrorData("PARSE_ERROR",
               [what |-> "rendering body template"]))
      [] OTHER ->
           [c EXCEPT !.pc = "sending",
                     !.template = NewTemplate,
                     !.request =
                         [kind |-> "http",
                          method |-> h.method,
                          url |-> rendered_url.text,
                          body |-> IF h.body_exist
                                   THEN Some(rendered_body.text)
                                   ELSE None,
                          headers |-> headers.headers]]

\* The HTTP future up to send().await (engine.rs 154-207): headers in the
\* map's order, then the url, then the body; one outcome per order of the map
HttpRendered(c) ==
    { HttpRenderedAs(c, router[c.tool].call,
          RenderHeaders(c.template, order, 1, Context(c.input), NoSlots),
          render(c.template, URL_TEMPLATE_NAME, Context(c.input)),
          IF router[c.tool].call.body_exist
          THEN render(c.template, BODY_TEMPLATE_NAME, Context(c.input))
          ELSE [ok |-> TRUE, text |-> <<>>]) :
        order \in Orders(router[c.tool].call.header_template_names) }

HttpCallRender ==
    \E c \in BagToSet(calls) :
        /\ c.pc = "received"
        /\ router[c.tool].call.kind = "http"
        /\ \E new \in HttpRendered(c) : Moves(c, new)

\* send().await resolves (engine.rs 207-222): an error, or a response whose
\* status, content type and content length are taken before the body is read
HttpCallSend ==
    /\ \E c \in BagToSet(calls) :
          /\ c.pc = "sending"
          /\ \/ calls' = Replace(c,
                    Finish(c, ErrorData("INTERNAL_ERROR",
                        [what |-> "sending a request", url |-> c.request.url])))
             \/ \E response \in Responses :
                    calls' = Replace(c, [c EXCEPT !.pc = "reading", !.response = response])
    /\ UNCHANGED <<catalog, build, router, tpl, heap, pipe>>

\* res.text().await resolves, and the handler runs to its end (engine.rs 224-267)
HttpCallRead ==
    /\ \E c \in BagToSet(calls) :
          /\ c.pc = "reading"
          /\ \E res_text \in BodyReads(c.response) :
                calls' = Replace(c,
                    Finish([c EXCEPT !.res_text = res_text],
                           HttpOutcome(c.request.url, c.response, res_text)))
    /\ UNCHANGED <<catalog, build, router, tpl, heap, pipe>>

\* The command future up to its first await (engine.rs 330-378): command and
\* args are rendered, the child is spawned, and only then, for a tool with a
\* stdin slot, the payload is rendered. A child without a stdin slot keeps the
\* server's own stdin. Returning with an error drops the Child handle, which
\* closes the pipe and leaves the process running.
CommandSpawnedAs(c, h, rendered_command, args, stdin_data) ==
    LET started == [c EXCEPT !.request = [kind |-> "command",
                                          command |-> rendered_command.text,
                                          args |-> args.args,
                                          stdin |-> None]]
    IN
    IF ~rendered_command.ok
    THEN { Finish(c, ErrorData("PARSE_ERROR",
                      [what |-> "rendering command template"])) }
    ELSE IF ~args.ok
    THEN { Finish(c, ErrorData("PARSE_ERROR",
                      [what |-> "rendering args template"])) }
    ELSE { Finish(started, ErrorData("INTERNAL_ERROR",
                      [what |-> "spawning a process"])),
           IF ~h.stdin_template_exist
           THEN [started EXCEPT !.pc = "waiting",
                                !.template = NewTemplate,
                                !.child = [spawned |-> TRUE,
                                           stdin |-> "inherit"]]
           ELSE IF ~stdin_data.ok
           THEN Finish([started EXCEPT !.child = [spawned |-> TRUE,
                                                  stdin |-> "closed"]],
                       ErrorData("PARSE_ERROR",
                           [what |-> "rendering stdin template"]))
           ELSE [started EXCEPT !.pc = "writing",
                                !.template = NewTemplate,
                                !.request.stdin = Some(stdin_data.text),
                                !.child = [spawned |-> TRUE,
                                           stdin |-> "piped"]] }

CommandSpawned(c) ==
    CommandSpawnedAs(c, router[c.tool].call,
        render(c.template, COMMAND_TEMPLATE_NAME, Context(c.input)),
        RenderArgs(c.template, Len(router[c.tool].call.args_template), 0,
                   Context(c.input)),
        render(c.template, STDIN_TEMPLATE_NAME, Context(c.input)))

CommandCallSpawn ==
    \E c \in BagToSet(calls) :
        /\ c.pc = "received"
        /\ router[c.tool].call.kind = "command"
        /\ \E new \in CommandSpawned(c) : Moves(c, new)

\* stdin.write_all().await resolves (engine.rs 378-383); the pipe is closed
\* when the handle goes out of scope, on either path
CommandCallWrite ==
    /\ \E c \in BagToSet(calls) :
          /\ c.pc = "writing"
          /\ \/ calls' = Replace(c,
                    Finish([c EXCEPT !.child.stdin = "closed"],
                           ErrorData("INTERNAL_ERROR", [what |-> "writing stdin"])))
             \/ calls' = Replace(c, [c EXCEPT !.pc = "waiting", !.child.stdin = "closed"])
    /\ UNCHANGED <<catalog, build, router, tpl, heap, pipe>>

\* wait_with_output().await resolves, and the handler runs to its end
\* (engine.rs 385-414)
CommandCallWait ==
    /\ \E c \in BagToSet(calls) :
          /\ c.pc = "waiting"
          /\ \/ calls' = Replace(c,
                    Finish(c, ErrorData("INTERNAL_ERROR", [what |-> "waiting for a process"])))
             \/ \E output \in Outputs :
                    calls' = Replace(c,
                        Finish([c EXCEPT !.output = output], CommandOutcome(output)))
    /\ UNCHANGED <<catalog, build, router, tpl, heap, pipe>>

-----------------------------------------------------------------------------
(* The server: one catalog is built into the table, then calls are served *)

HeaderXId == <<"x", "-", "i", "d">>
HeaderBadName == <<"b", "a", "d", " ", "n", "a", "m", "e">>

HttpItem ==
    [url |-> <<"h", "/">> \o PlaceholderF, method |-> "POST",
     body |-> Some(<<"{", "\"", "a", "\"", ":", " ", "1", "}">>),
     headers |-> Some(<<[name |-> HeaderXId, text |-> PlaceholderF]>>),
     input_schema |-> "item_schema"]

HttpHdr ==
    [url |-> <<"h">>, method |-> "GET", body |-> None,
     headers |-> Some(<<[name |-> HeaderBadName, text |-> <<"v">>],
                        [name |-> HeaderXId, text |-> PlaceholderF]>>),
     input_schema |-> "hdr_schema"]

CommandEcho ==
    [command |-> <<"e", "c", "h", "o">>, args |-> Some(<<PlaceholderF>>),
     stdin |-> None, input_schema |-> "echo_schema"]

CommandCat ==
    [command |-> <<"c", "a", "t">>, args |-> None,
     stdin |-> Some(PlaceholderF), input_schema |-> "cat_schema"]

ServedCatalog ==
    << [name |-> "item", tool_type |-> "HTTP",
        http_metadata |-> Some(HttpItem), command_metadata |-> None],
       [name |-> "off", tool_type |-> "HTTP",
        http_metadata |-> None, command_metadata |-> None],
       [name |-> "hdr", tool_type |-> "HTTP",
        http_metadata |-> Some(HttpHdr), command_metadata |-> None],
       [name |-> "echo", tool_type |-> "COMMAND",
        http_metadata |-> None, command_metadata |-> Some(CommandEcho)],
       [name |-> "cat", tool_type |-> "COMMAND",
        http_metadata |-> None, command_metadata |-> Some(CommandCat)] >>

Init ==
    /\ catalog = ServedCatalog
    /\ build = [pc |-> "building", i |-> 0, registered |-> {}]
    /\ router = NoRoutes
    /\ calls = NoCalls
    /\ tpl = TplIdle
    /\ heap = NoHeap
    /\ pipe = PipeIdle

Next ==
    \/ RouterEntry
    \/ RouterReturn
    \/ CallReceive
    \/ HttpCallRender
    \/ HttpCallSend
    \/ HttpCallRead
    \/ CommandCallSpawn
    \/ CommandCallWrite
    \/ CommandCallWait

Spec == Init /\ [][Next]_vars

-----------------------------------------------------------------------------------------------------------------------------------------------------
(* One call of a COMMAND tool that has a stdin slot, followed byte by byte
   through the pipes between the handler and its child (engine.rs 363-389).
   The child is one that reads its input to the end, prints echo bytes for
   every byte it reads, and exits at end of input. stderr is a second pipe of
   the same kind as stdout and is drained with it. *)

PipeCapacity == 2   \* bytes a pipe holds before a write to it blocks
MaxPayload == 6     \* longest rendered stdin payload
MaxEcho == 2        \* most bytes the child prints for one byte it reads

\* stdin.write_all(stdin_data.as_bytes()).await: one more byte enters the
\* child's stdin pipe; the write is pending while the pipe is full
StdinWrite ==
    /\ pipe.pc = "writing"
    /\ pipe.stdin_data > 0
    /\ pipe.stdin < PipeCapacity
    /\ pipe' = [pipe EXCEPT !.stdin_data = @ - 1, !.stdin = @ + 1]
    /\ UNCHANGED <<catalog, build, router, calls, tpl, heap>>

\* write_all has returned: the ChildStdin is dropped at the end of its block,
\* and command.wait_with_output() starts
StdinClose ==
    /\ pipe.pc = "writing"
    /\ pipe.stdin_data = 0
    /\ pipe' = [pipe EXCEPT !.pc = "waiting", !.stdin_closed = TRUE]
    /\ UNCHANGED <<catalog, build, router, calls, tpl, heap>>

\* the child reads one byte once it has printed what it owes for the last one
ChildRead ==
    /\ pipe.child = "running"
    /\ pipe.owed = 0
    /\ pipe.stdin > 0
    /\ pipe' = [pipe EXCEPT !.stdin = @ - 1, !.owed = pipe.echo]
    /\ UNCHANGED <<catalog, build, router, calls, tpl, heap>>

\* the child prints one byte; its write blocks while the stdout pipe is full
ChildPrint ==
    /\ pipe.child = "running"
    /\ pipe.owed > 0
    /\ pipe.stdout < PipeCapacity
    /\ pipe' = [pipe EXCEPT !.owed = @ - 1, !.stdout = @ + 1]
    /\ UNCHANGED <<catalog, build, router, calls, tpl, heap>>

\* the child sees end of input and exits
ChildExit ==
    /\ pipe.child = "running"
    /\ pipe.owed = 0
    /\ pipe.stdin = 0
    /\ pipe.stdin_closed
    /\ pipe' = [pipe EXCEPT !.child = "exited"]
    /\ UNCHANGED <<catalog, build, router, calls, tpl, heap>>

\* wait_with_output reads the child's output: nothing reads it before
OutputDrain ==
    /\ pipe.pc = "waiting"
    /\ pipe.stdout > 0
    /\ pipe' = [pipe EXCEPT !.stdout = @ - 1, !.output = @ + 1]
    /\ UNCHANGED <<catalog, build, router, calls, tpl, heap>>

\* wait_with_output returns: the child has exited and its output is read to
\* the end; the handler goes on to the call's result
OutputReturn ==
    /\ pipe.pc = "waiting"
    /\ pipe.child = "exited"
    /\ pipe.stdout = 0
    /\ pipe' = [pipe EXCEPT !.pc = "returned"]
    /\ UNCHANGED <<catalog, build, router, calls, tpl, heap>>

\* spawn() has returned with stdin, stdout and stderr piped, and the stdin
\* slot has rendered to a payload of stdin_data bytes
InitPipe ==
    /\ catalog = <<>>
    /\ build = [pc |-> "unused", i |-> 0, registered |-> {}]
    /\ router = NoRoutes
    /\ calls = NoCalls
    /\ tpl = TplIdle
    /\ heap = NoHeap
    /\ \E n \in 0..MaxPayload, e \in 0..MaxEcho :
           pipe = [PipeIdle EXCEPT !.pc = "writing", !.stdin_data = n,
                                   !.child = "running", !.echo = e]

NextPipe ==
    \/ StdinWrite
    \/ StdinClose
    \/ ChildRead
    \/ ChildPrint
    \/ ChildExit
    \/ OutputDrain
    \/ OutputReturn

\* The tokio runtime polls a future again whenever the pipe it waits for is
\* ready, and the operating system runs a child that is not blocked: a step
\* that stays possible is taken.
SpecPipe ==
    /\ InitPipe
    /\ [][NextPipe]_vars
    /\ WF_vars(StdinWrite) /\ WF_vars(StdinClose)
    /\ WF_vars(ChildRead) /\ WF_vars(ChildPrint) /\ WF_vars(ChildExit)
    /\ WF_vars(OutputDrain) /\ WF_vars(OutputReturn)

-----
(* Claims about one template slot (SpecTemplate) *)

PlaceholderFUrlEncode ==
    <<"{", "i", "n", "p", "u", "t", ".", "f",
      " ", "|", " ", "u", "r", "l", "_", "e", "n", "c", "o", "d", "e", "}">>

\* the value of field f in the call input that was rendered
RenderedField == Lookup(tpl.input, <<FieldF>>)

\* a serialization without one pair of enclosing quotes
StripOnePair(s) ==
    IF Len(s) >= 2 /\ s[1] = "\"" /\ s[Len(s)] = "\""
    THEN Slice(s, 2, Len(s) - 1) ELSE s

HasBrace(t) == \E i \in 1..Len(t) : t[i] \in {"{", "}"}
HasPlaceholder(t) == \E i \in 1..Len(t) : t[i] = "{" /\ PlaceholderEnd(t, i) # 0

\* C4: once the slot text "{input.f}" has been rendered against an input that
\* holds f, the output is the JSON serialization of f with exactly one pair of
\* enclosing quotes removed: a string keeps every inner character (also a
\* quote at its start or end), a number or an object is its JSON text.
C4_DefaultFormatterStripsOnePair ==
    (tpl.pc = "rendered" /\ tpl.raw = PlaceholderF /\ RenderedField.found)
        => /\ tpl.out.ok
           /\ tpl.out.text = StripOnePair(Serialize(RenderedField.value))

\* C5: a slot text with literal braces and no input placeholder is accepted at
\* startup and renders to exactly the raw text, for every call input, from the
\* startup set and from its per-call clone.
C5_LiteralBracesRenderUnchanged ==
    (HasBrace(tpl.raw) /\ ~HasPlaceholder(tpl.raw))
        => /\ tpl.pc \notin {"error", "panic"}
           /\ tpl.pc = "rendered" => (tpl.out.ok /\ tpl.out.text = tpl.raw)

\* C6: the slot text "{input.f | url_encode}" is still an interpolation after
\* sanitization: rendered against an input that holds f it yields the
\* percent-encoding of the JSON serialization of f.
C6_UrlEncodeSelectable ==
    (tpl.pc = "rendered" /\ tpl.raw = PlaceholderFUrlEncode /\ RenderedField.found)
        => /\ tpl.out.ok
           /\ tpl.out.text = PercentEncode(Serialize(RenderedField.value))

-----------------------------------------------------------------------------
(* Claims about startup (SpecRouter) *)

\* the spec that the entry's kind asks for
KindMetadata(entry) ==
    IF entry.tool_type = "HTTP" THEN entry.http_metadata ELSE entry.command_metadata

\* the code's retention: the spec for the entry's kind is present
Retained(entry) == KindMetadata(entry).some

\* exactly one of the two specs is present, and it is the one of the kind
ExactlyOneMatching(entry) ==
    /\ entry.http_metadata.some # entry.command_metadata.some
    /\ KindMetadata(entry).some

\* every slot text of a retained entry compiles
Compiles(entry) == ToolRoute(entry).status = "ok"

\* C8: a tool whose template text does not compile is the only one left out:
\* the build is never aborted, and when it has finished every retained entry
\* whose texts compile has been registered.
C8_CompileFailureIsolated ==
    /\ build.pc # "aborted"
    /\ build.pc = "done" =>
          \A k \in 1..Len(catalog) :
              (Retained(catalog[k]) /\ Compiles(catalog[k])) => k \in build.registered

\* C9: an entry the loop is past has been registered if and only if exactly one
\* of its two specs is present and that one matches its kind; every other
\* entry was skipped, and the loop went on to the entries after it.
C9_RegisteredIffExactlyOneMatching ==
    \A k \in 1..build.i : (k \in build.registered) <=> ExactlyOneMatching(catalog[k])

\* the last entry among the first n that is retained under the given name
LastRetained(name, n) ==
    LET ks == {k \in 1..n : catalog[k].name = name /\ Retained(catalog[k])}
    IN  IF ks = {} THEN 0 ELSE CHOOSE k \in ks : \A j \in ks : j <= k

\* C10: at every point of the build the table holds one route per name
\* retained so far, and both the schema and the handler of that route are the
\* ones of the last retained definition of the name; no route mixes two
\* definitions, and routes of other names are as their own definitions say.
C10_DuplicateNameLastWins ==
    /\ DOMAIN router = {catalog[k].name : k \in build.registered}
    /\ \A name \in DOMAIN router :
          LET k == LastRetained(name, build.i)
          IN  /\ k # 0
              /\ router[name].attr =
                    generate_tool_description(name, KindMetadata(catalog[k]).v.input_schema)
              /\ router[name].call = ToolRoute(catalog[k]).route.call

\* a finished build whose table holds a name defined twice, by definitions
\* that differ in schema and in handler
C10_Witness ==
    /\ build.pc = "done"
    /\ \E j, k \in build.registered :
          /\ j < k
          /\ catalog[j].name = catalog[k].name
          /\ KindMetadata(catalog[j]).v.input_schema # KindMetadata(catalog[k]).v.input_schema
          /\ ToolRoute(catalog[j]).route.call # ToolRoute(catalog[k]).route.call
          /\ \E other \in DOMAIN router : other # catalog[k].name

-----------------------------------------------------------------------------
(* Claims about calls (Spec) *)

\* the finished calls
Finished == { c \in BagToSet(calls) : c.pc = "done" }

\* the finished HTTP calls that got a response, by what reading its body gave
BodyRead == { c \in Finished : c.res_text.read /\ c.res_text.ok }
BodyUnreadable == { c \in Finished : c.res_text.read /\ ~c.res_text.ok }

\* the finished command calls whose child ran to completion
Completed == { c \in Finished : c.output.waited }

DeclaredLength(c) ==
    IF c.response.content_length.some THEN c.response.content_length.v ELSE 0

\* C1: every call that has ended has ended in a success result or in a
\* structured error; none has ended in a panic, whatever the input, the tool
\* definition that passed startup, or the peer's response.
C1_EveryCallReturns ==
    \A c \in Finished : c.result.kind \in {"ok", "err"}

\* C2, as stated: every call that got a response with a status outside
\* 200..299 and read its body has failed with the status error that carries
\* that status, whatever the content type and the body text.
C2_NonSuccessStatusIsResponseError ==
    \A c \in BodyRead :
        c.response.status \notin 200..299
            => /\ IsStatusError(c.result)
               /\ c.result.message.status = c.response.status

\* C2, amended: a call that got a response with a status outside 200..299 and
\* read its body fails with the status error carrying the status and the body
\* (the parsed JSON value written back as text when the content type holds
\* application/json, the body as a JSON string otherwise), except that a body
\* declared as application/json that does not parse fails with the JSON
\* parsing error, which carries no status. While such a failed call exists the
\* table is intact and, as long as there is room, a further call is accepted.
C2_NonSuccessStatusAfterParsing ==
    /\ \A c \in BodyRead :
          c.response.status \notin 200..299
              => LET json == Contains(c.response.content_type, ApplicationJson)
                     parsed == from_str(c.res_text.text)
                 IN  IF json /\ ~parsed.ok
                     THEN c.result = ErrorData("INTERNAL_ERROR",
                              [what |-> "parsing json content", url |-> c.request.url])
                     ELSE c.result = ErrorData("INTERNAL_ERROR",
                              [what |-> "got status code", url |-> c.request.url,
                               status |-> c.response.status,
                               body |-> Serialize(IF json THEN parsed.val
                                                  ELSE VStr(c.res_text.text))])
    /\ (\E c \in Finished : IsStatusError(c.result))
          => /\ build.pc = "done"
             /\ DOMAIN router = {catalog[k].name : k \in build.registered}
             /\ BagCardinality(calls) < MaxCalls => ENABLED CallReceive

\* a 404 with the JSON body {"e":1} has failed one call with status and body
\* in the error, and a call that came in after that failure has succeeded
C2_Witness ==
    \E c, d \in Finished :
        /\ c.response.status = 404
        /\ Contains(c.response.content_type, ApplicationJson)
        /\ c.res_text.ok /\ c.res_text.text = BodyJson
        /\ IsStatusError(c.result)
        /\ c.result.message.status = 404 /\ c.result.message.body = BodyJson
        /\ d.after_status_error
        /\ d.result.kind = "ok"

\* C3: a command call whose child ran to completion has, for a non-zero exit
\* status, the error that carries stderr (whatever stdout holds) and, for a
\* zero exit status, a success with exactly one content item: JSON content of
\* the parsed value when the whole of stdout parses as one JSON value, text
\* content equal to stdout otherwise. Two such calls with the same exit status
\* and output have the same result, whatever their tools and inputs.
C3_CommandOutcomeByExitAndOutput ==
    /\ \A c \in Completed :
          IF c.output.status # 0
          THEN c.result = ErrorData("INTERNAL_ERROR",
                   [what |-> "executing a command", stderr |-> c.output.stderr])
          ELSE /\ c.result.kind = "ok"
               /\ Len(c.result.content) = 1
               /\ LET parsed == from_str(c.output.stdout)
                  IN  IF parsed.ok
                      THEN c.result.content[1] = Content_json(parsed.val)
                      ELSE c.result.content[1] = Content_text(c.output.stdout)
    /\ \A c, d \in Completed : c.output = d.output => c.result = d.result

\* one child exited 0 with stdout {"x":1} and a newline, returned as JSON
\* content, and one exited 1 with JSON on stdout, returned as the stderr error
C3_Witness ==
    \E c, d \in Completed :
        /\ c.output.status = 0
        /\ c.output.stdout = <<"{", "\"", "x", "\"", ":", "1", "}", "\n">>
        /\ c.result = success(<<[type |-> "json",
                                 text |-> <<"{", "\"", "x", "\"", ":", "1", "}">>]>>)
        /\ d.output.status = 1
        /\ from_str(d.output.stdout).ok
        /\ d.result.kind = "err"

\* C7: when reading the body of a received response has failed, the call has
\* ended in the reading error if the response declared a content length above
\* zero, and otherwise in what an empty body gives (content-type handling,
\* then the status check); and the reading error is given in no other case.
C7_UnreadableBodyByDeclaredLength ==
    /\ \A c \in BodyUnreadable :
          IF DeclaredLength(c) > 0
          THEN c.result = ErrorData("INTERNAL_ERROR",
                   [what |-> "reading content", url |-> c.request.url])
          ELSE c.result =
                   HttpOutcome(c.request.url, c.response,
                               [ok |-> TRUE, text |-> <<>>, read |-> TRUE])
    /\ \A c \in Finished :
          (c.result.kind = "err" /\ c.result.message.what = "reading content")
              => c \in BodyUnreadable /\ DeclaredLength(c) > 0

\* the step that takes an in-flight call on can be taken, and changes the state
StepEnabled(d) ==
    CASE d.pc = "received" /\ router[d.tool].call.kind = "http" ->
             \E new \in HttpRendered(d) : ENABLED <<Moves(d, new)>>_vars
      [] d.pc = "received" /\ router[d.tool].call.kind = "command" ->
             \E new \in CommandSpawned(d) : ENABLED <<Moves(d, new)>>_vars
      [] d.pc = "sending" -> ENABLED <<HttpCallSend>>_vars
      [] d.pc = "reading" -> ENABLED <<HttpCallRead>>_vars
      [] d.pc = "writing" -> ENABLED <<CommandCallWrite>>_vars
      [] d.pc = "waiting" -> ENABLED <<CommandCallWait>>_vars
      [] OTHER -> FALSE

\* while a call waits for its child, every other call in flight can move on
OthersCanStep ==
    \A d \in BagToSet(calls) :
        (/\ d.pc # "done"
         /\ \E c \in BagToSet(calls) :
                c.pc = "waiting" /\ (d # c \/ CopiesIn(c, calls) > 1))
            => StepEnabled(d)

\* a step takes in one call or moves one call on: every other call is left
\* as it was, and a call that has finished keeps its result
OneCallMoves ==
    LET gone == calls (-) calls'
        come == calls' (-) calls
    IN  /\ BagCardinality(gone) <= 1
        /\ BagCardinality(come) <= 1
        /\ \A c \in BagToSet(gone) : c.pc # "done"

\* C11: while a call to a command tool is suspended waiting for its child,
\* every other call in flight (to the same tool or another) can take its next
\* step; and no step of one call reads or changes another call: each step
\* moves one call on and leaves the others, finished or not, as they were.
C11_ConcurrentCallsIndependent == [](OthersCanStep) /\ [][OneCallMoves]_vars

\* a call to an HTTP tool has completed while a call to a command tool is
\* still waiting for its child
C11_Witness ==
    \E c, d \in BagToSet(calls) :
        /\ c.pc = "waiting" /\ c.child.spawned
        /\ d.pc = "done" /\ d.response.status = 200 /\ d.result.kind = "ok"

\* the render failures of the command handler
IsCommandRenderError(result) ==
    /\ result.kind = "err"
    /\ result.code = "PARSE_ERROR"
    /\ result.message.what \in {"rendering command template",
                                "rendering args template",
                                "rendering stdin template"}

\* C12: a command call that has failed on rendering one of its slots (the
\* command, an argument, or stdin) has spawned no child process: all slots
\* are rendered before the spawn.
C12_RenderFailureBeforeSpawn ==
    \A c \in Finished : IsCommandRenderError(c.result) => ~c.child.spawned

------------------------------------------------------------------------\* the compilations and the storage that startup spent on the set a tool's
\* handler holds
StartupAllocation(name) == Allocated(router[name].call.template)

\* C14: a tool's template set is built once, at startup, and reused by every
\* call: once startup has finished, the compilations performed and the
\* template storage allocated for each tool stay what startup spent on the
\* set its handler holds, whatever calls have been received.
C14_TemplateSetBuiltOnce ==
    build.pc = "done" =>
        \A name \in DOMAIN router : heap[name] = StartupAllocation(name)

\* main.rs 27-36: under TransportType::STDIO the service is served on stdio(),
\* so the server's standard input is the stream the protocol's requests arrive
\* on; under SSE they arrive on HTTP connections
ServerStdin(transport_type) ==
    IF transport_type = "STDIO" THEN "protocol stream" ELSE "terminal"

\* what the standard input of a call's child is connected to: Command leaves a
\* stream it was not told about inherited from the parent
ChildStdin(c, transport_type) ==
    CASE c.child.stdin = "inherit"            -> ServerStdin(transport_type)
      [] c.child.stdin \in {"piped", "closed"} -> "payload pipe"
      [] OTHER                                -> "none"

\* C16: a child spawned for a command tool is isolated from the server's own
\* input: with a stdin slot it reads only the pipe that carries the rendered
\* payload, without one it has no connection to the server's standard input,
\* so under the stdio transport no child can read the protocol stream.
C16_ChildIsolatedFromServerStdin ==
    \A c \in BagToSet(calls) : c.child.spawned =>
        /\ router[c.tool].call.stdin_template_exist
              => ChildStdin(c, "STDIO") = "payload pipe"
        /\ ~router[c.tool].call.stdin_template_exist => c.child.stdin # "inherit"
        /\ ChildStdin(c, "STDIO") # "protocol stream"

-----
(* Further claims about one template slot (SpecTemplate) *)

\* The raw text from position i on, with every placeholder of the supported
\* shape replaced by the formatted value of its field in the call input and
\* every other character kept.
RECURSIVE Substituted(_, _, _)
Substituted(raw, i, object) ==
    IF i > Len(raw) THEN <<>>
    ELSE IF raw[i] = "{" /\ PlaceholderEnd(raw, i) # 0
         THEN LET e == PlaceholderEnd(raw, i)
                  path == SplitDot(Trim(Slice(raw, i + 1, e - 1)))
              IN  DefaultFormatter(Lookup(Context(object), path).value)
                  \o Substituted(raw, e + 1, object)
         ELSE <<raw[i]>> \o Substituted(raw, i + 1, object)

\* C13: a slot text that has been rendered against an input holding the field
\* its placeholders name has given the raw text with each placeholder replaced
\* by the formatted field and every other character unchanged, whatever
\* character stands before a placeholder or a brace.
C13_OnlyPlaceholdersSubstituted ==
    (tpl.pc = "rendered" /\ (RenderedField.found \/ ~HasPlaceholder(tpl.raw)))
        => /\ tpl.out.ok
           /\ tpl.out.text = Substituted(tpl.raw, 1, tpl.input)

-----------------------------------------------------------------------------
(* Claims about one command child and its pipes (SpecPipe) *)

\* the handler waits to write stdin while the child waits to print
WriteWriteBlocked ==
    /\ pipe.pc = "writing" /\ pipe.stdin_data > 0 /\ pipe.stdin = PipeCapacity
    /\ pipe.child = "running" /\ pipe.owed > 0 /\ pipe.stdout = PipeCapacity

\* C15: a call of a command tool with a stdin slot, whose child exits once its
\* input has been delivered and closed and its output is drained, eventually
\* gets past wait_with_output to its result, for every payload size and every
\* amount of child output: the handler is never left blocked writing stdin
\* while the child is blocked printing to a full pipe.
C15_StdinCallReturns == [](~WriteWriteBlocked) /\ <>(pipe.pc = "returned")

=============================================================================
